---- MODULE Spec2Model ----
(***************************************************************************)
(* Christa's Closet client script (static/script.js): the daily            *)
(* notification scheduler, the permission / preference resolution that     *)
(* starts it, the settings input that persists a time-of-day, and the      *)
(* share button.                                                           *)
(*                                                                         *)
(* Time is the host clock in milliseconds of local time, counted from the  *)
(* local midnight of the day the page was loaded (day 0); the local zone   *)
(* has a fixed offset (no DST transition inside the window).  Strings are  *)
(* sequences of one-character strings, so that split and parseInt are      *)
(* computed on the characters.                                             *)
(***************************************************************************)
EXTENDS Integers, Sequences, FiniteSets, TLC

VARIABLES
    now,            \* host clock: what new Date() reads (ms)
    phase,          \* "loading" until DOMContentLoaded has run, then "ready"
    notifCap,       \* 'Notification' in window
    permReq,        \* Notification.requestPermission() promise: "idle" | "pending" | "settled"
    permission,     \* what the promise resolved to ("none" while unresolved)
    stored,         \* localStorage['notification_time'] (Null when the key is absent)
    defaultTime,    \* window.DEFAULT_NOTIFICATION_TIME (Undefined when not configured)
    hasNt,          \* the page has the settings input #nt
    ntWired,        \* the change listener is registered on #nt
    timeStr,        \* argument captured by the running scheduleNotificationAt (Null: not started)
    timers,         \* pending setTimeout timers of the scheduler
    timerSeq,       \* number of setTimeout calls made so far (the last timer id)
    notifCount,     \* number of Notification objects constructed
    fireDays,       \* calendar day -> number of notifications constructed on that day
    overnight,      \* number of callbacks run on a later calendar day than their target
    lastFire,       \* the last timer callback run, {[at, due, target]} ({}: none yet)
    ntChangeSeq,    \* timerSeq at the last change event of #nt (0: none since the start)
    permNow,        \* Notification.permission as the browser holds it now
    shown,          \* number of Notification objects constructed while permission was granted
    hasShareBtn,    \* the page has the button #share-btn
    shareWired,     \* the click listener is registered on #share-btn
    navShare,       \* navigator.share is present
    navClipboard,   \* navigator.clipboard is present
    outfit,         \* text of the li items under .outfit-list (NoList: no such container)
    clicks,         \* number of clicks handled by the share listener
    shareCalls,     \* number of navigator.share calls
    clipWrites,     \* number of navigator.clipboard.writeText calls
    textAlerts,     \* number of alert(text) calls
    copiedAlerts,   \* number of alert('Outfit details copied to clipboard!') calls
    logged,         \* number of console.error('Share failed', err) calls
    sharePending,   \* navigator.share promises not yet settled
    clipPending,    \* writeText promises not yet settled
    lastText        \* the text built by the last click (Null: no click yet)

\* the share button's part of the state
shareVars == <<hasShareBtn, shareWired, navShare, navClipboard, outfit, clicks,
               shareCalls, clipWrites, textAlerts, copiedAlerts, logged,
               sharePending, clipPending, lastText>>

vars == <<now, phase, notifCap, permReq, permission, stored, defaultTime, hasNt,
          ntWired, timeStr, timers, timerSeq, notifCount, fireDays, overnight,
          lastFire, ntChangeSeq, permNow, shown, shareVars>>

----------------------------------------------------------------------------
(* Bounds and units *)

MaxDay == 3                     \* the clock runs over days 0 .. MaxDay

MsPerSec == 1000
MsPerMin == 60 * MsPerSec
MsPerHour == 60 * MsPerMin
MsPerDay == 24 * MsPerHour

\* JavaScript values.  A string is a sequence of one-character strings; Null and
\* Undefined are distinct from every string.  A number n is the one-element
\* sequence <<n>> and NaN the empty one (numbers and strings never meet).
Null == <<"null">>
Undefined == <<"undefined">>
NaN == <<>>

\* document.querySelector('.outfit-list') found nothing
NoList == <<<<"no-list">>>>

Num(n) == <<n>>

Val(x) == x[1]

----------------------------------------------------------------------------
(* Strings *)

Digits == <<"0", "1", "2", "3", "4", "5", "6", "7", "8", "9">>

IsDigit(c) == \E i \in 1..10 : Digits[i] = c

DigitVal(c) == (CHOOSE i \in 1..10 : Digits[i] = c) - 1

IsSpace(c) == c \in {" ", "\t", "\n"}

\* "HH:MM" as the time input and the page write it: two digits, colon, two digits
FormatHHMM(h, m) ==
    <<Digits[(h \div 10) + 1], Digits[(h % 10) + 1], ":",
      Digits[(m \div 10) + 1], Digits[(m % 10) + 1]>>

\* index of the first occurrence of sep in s, 0 when there is none
RECURSIVE IndexFrom(_, _, _)
IndexFrom(s, sep, i) ==
    IF i > Len(s) THEN 0
    ELSE IF s[i] = sep THEN i
    ELSE IndexFrom(s, sep, i + 1)

\* String.prototype.split(sep) for a one-character separator
RECURSIVE Split(_, _)
Split(s, sep) ==
    LET i == IndexFrom(s, sep, 1) IN
    IF i = 0 THEN <<s>>
    ELSE <<SubSeq(s, 1, i - 1)>> \o Split(SubSeq(s, i + 1, Len(s)), sep)

RECURSIVE SkipSpace(_)
SkipSpace(s) ==
    IF s # <<>> /\ IsSpace(Head(s)) THEN SkipSpace(Tail(s)) ELSE s

\* value of the longest prefix of digits of s, continuing from acc
RECURSIVE DigitsValue(_, _)
DigitsValue(s, acc) ==
    IF s # <<>> /\ IsDigit(Head(s))
    THEN DigitsValue(Tail(s), 10 * acc + DigitVal(Head(s)))
    ELSE acc

\* parseInt(x, 10): x is a string, or Undefined (a missing array element)
ParseInt(x) ==
    IF x = Undefined THEN NaN
    ELSE
        LET t == SkipSpace(x)
            neg == t # <<>> /\ Head(t) = "-"
            u == IF t # <<>> /\ Head(t) \in {"-", "+"} THEN Tail(t) ELSE t
        IN  IF u = <<>> \/ ~IsDigit(Head(u)) THEN NaN
            ELSE IF neg THEN Num(0 - DigitsValue(u, 0)) ELSE Num(DigitsValue(u, 0))

\* parts[i] of a JavaScript array, 0-based
ArrayAt(a, i) == IF i + 1 <= Len(a) THEN a[i + 1] ELSE Undefined

----------------------------------------------------------------------------
(* Dates *)

DayOf(t) == t \div MsPerDay

TimeOfDay(t) == t % MsPerDay

\* setHours(hours, 0, 0, 0): the minutes are dropped
SetHours_NoMinutes(d, h, m) ==
    IF d = NaN \/ h = NaN \/ m = NaN THEN NaN
    ELSE Num(DayOf(Val(d)) * MsPerDay + Val(h) * MsPerHour)

\* Date.prototype.setHours(h, m, 0, 0) on the date with time value d, in local
\* time: the fields carry over (hour 24 is the next day); NaN makes an Invalid Date
SetHours(d, h, m) ==
    IF d = NaN \/ h = NaN \/ m = NaN THEN NaN
    ELSE Num(DayOf(Val(d)) * MsPerDay + Val(h) * MsPerHour + Val(m) * MsPerMin)

\* target.setDate(target.getDate()): the date is not advanced
AddOneDay_Same(d) == d

\* target.setDate(target.getDate() + 1)
AddOneDay(d) == IF d = NaN THEN NaN ELSE Num(Val(d) + MsPerDay)

\* target <= now on two Dates: false when either is an Invalid Date
DateLeq(a, b) == a # NaN /\ b # NaN /\ Val(a) <= Val(b)

\* target.getTime() - now.getTime()
DateDiff(a, b) == IF a = NaN \/ b = NaN THEN NaN ELSE Num(Val(a) - Val(b))

----------------------------------------------------------------------------
(* Inputs: the values the environment supplies *)

\* the literal '08:00' of setupNotifications
Literal0800 == <<"0", "8", ":", "0", "0">>

\* localStorage['notification_time'] when the page loads
StoredAtLoad == {Null, FormatHHMM(23, 59)}

\* window.DEFAULT_NOTIFICATION_TIME as the hosting page sets it
DefaultTimes == {Undefined, <<>>, FormatHHMM(7, 30)}

\* e.target.value of the time input #nt: "" when cleared, else HH:MM
NtValues == {<<>>, FormatHHMM(0, 0)}

\* what requestPermission() resolves to
Permissions == {"granted", "denied", "default"}

\* (hour, minute) of the time strings above
HourMinutes == {<<8, 0>>, <<23, 59>>, <<7, 30>>, <<0, 0>>}

MsOf(hm) == hm[1] * MsPerHour + hm[2] * MsPerMin

\* the times of day the clock is observed at: each time-of-day to the
\* millisecond, and around 08:00 one minute before, one millisecond after and
\* one second after
ClockTimesOfDay ==
    {MsOf(hm) : hm \in HourMinutes}
    \cup {MsOf(<<8, 0>>) - MsPerMin, MsOf(<<8, 0>>) + 1, MsOf(<<8, 0>>) + MsPerSec}

Moments == {d * MsPerDay + t : d \in 0..MaxDay, t \in ClockTimesOfDay}

----------------------------------------------------------------------------
(* scheduleNotificationAt / schedule *)

\* target < now in place of target <= now
TargetPassed_Strict(target, nowDate) ==
    target # NaN /\ nowDate # NaN /\ Val(target) < Val(nowDate)

\* the test of line 26: target <= now
TargetPassed(target, nowDate) == DateLeq(target, nowDate)

\* fixed-interval repetition: once the time has passed, now plus 24 hours
ScheduleTarget_FixedInterval(ts, nw) ==
    LET nowDate == Num(nw)
        parts == Split(ts, ":")
        hours == ParseInt(ArrayAt(parts, 0))
        minutes == ParseInt(ArrayAt(parts, 1))
        target == SetHours(nowDate, hours, minutes)
    IN  IF TargetPassed(target, nowDate) THEN AddOneDay(nowDate) ELSE target

\* lines 20-28 of schedule(): the target Date for timeStr ts, read at clock nw
ScheduleTarget(ts, nw) ==
    LET nowDate == Num(nw)
        parts == Split(ts, ":")
        hours == ParseInt(ArrayAt(parts, 0))
        minutes == ParseInt(ArrayAt(parts, 1))
        target == SetHours(nowDate, hours, minutes)
    IN  IF TargetPassed(target, nowDate) THEN AddOneDay(target) ELSE target

\* now.getTime() - target.getTime(): the operands swapped
ScheduleTimeout_Swapped(ts, nw) == DateDiff(Num(nw), ScheduleTarget(ts, nw))

\* line 29: const timeout = target.getTime() - now.getTime()
ScheduleTimeout(ts, nw) == DateDiff(ScheduleTarget(ts, nw), Num(nw))

\* setTimeout's delay for a timeout argument: NaN and negatives count as 0
TimerDelay(timeout) ==
    IF timeout = NaN \/ Val(timeout) < 0 THEN 0 ELSE Val(timeout)

\* the strings scheduleNotificationAt can be called with
TimeStrings ==
    {Literal0800} \cup (StoredAtLoad \ {Null}) \cup NtValues \cup (DefaultTimes \ {Undefined})

\* what schedule() computes, as a function of timeStr and of the clock it reads
Scheduled ==
    [ts \in TimeStrings, nw \in Moments |->
        [target |-> ScheduleTarget(ts, nw),
         timeout |-> ScheduleTimeout(ts, nw),
         delay |-> TimerDelay(ScheduleTimeout(ts, nw))]]

\* the timer that one run of schedule() arms: setTimeout(callback, timeout)
schedule(ts, nw, id) ==
    [id |-> id,
     armedAt |-> nw,
     target |-> Scheduled[ts, nw].target,
     timeout |-> Scheduled[ts, nw].timeout,
     due |-> nw + Scheduled[ts, nw].delay]

\* a test of presence that lets the empty string through, as ?? would
Truthy_EmptyOk(x) == x # Null /\ x # Undefined

Truthy(x) == x # Null /\ x # Undefined /\ x # <<>>

\* a resolution that prefers the configured default to the persisted value
ResolveTimeStr_DefaultFirst(st, dflt) ==
    LET dt == IF dflt # Undefined THEN dflt ELSE Literal0800
    IN  IF Truthy(dt) THEN dt
        ELSE IF Truthy(st) THEN st
        ELSE Literal0800

\* a resolution that does not see what the settings input wrote since the page
\* was loaded
ResolveTimeStr_AtLoad(st, dflt) ==
    LET dt == IF dflt # Undefined THEN dflt ELSE Literal0800
        ld == IF st \in NtValues THEN Null ELSE st
    IN  IF Truthy(ld) THEN ld
        ELSE IF Truthy(dt) THEN dt
        ELSE Literal0800

\* lines 44-46 of setupNotifications: stored || defaultTime || '08:00'
ResolveTimeStr(st, dflt) ==
    LET dt == IF dflt # Undefined THEN dflt ELSE Literal0800
    IN  IF Truthy(st) THEN st
        ELSE IF Truthy(dt) THEN dt
        ELSE Literal0800

----------------------------------------------------------------------------
(* The share text *)

\* the last day a page of any kind is followed to
PageDays == 0

\* the number of share clicks the model follows
MaxClicks == 1

\* 'My outfit from Christa\'s Closet:\n'
ShareHeader ==
    <<"M", "y", " ", "o", "u", "t", "f", "i", "t", " ", "f", "r", "o", "m",
    " ", "C", "h", "r", "i", "s", "t", "a", "'", "s", " ", "C", "l", "o",
    "s", "e", "t", ":", "\n">>

RECURSIVE TrimEnd(_)
TrimEnd(s) ==
    IF s # <<>> /\ IsSpace(s[Len(s)]) THEN TrimEnd(SubSeq(s, 1, Len(s) - 1)) ELSE s

\* a trim that leaves the text as it is
Trim_None(s) == s

\* String.prototype.trim: whitespace removed at both ends
Trim(s) == TrimEnd(SkipSpace(s))

\* items.forEach((li) => { text += li.textContent.trim() + '\n'; })
RECURSIVE AppendItems(_, _)
AppendItems(text, items) ==
    IF items = <<>> THEN text
    ELSE AppendItems(text \o Trim(Head(items)) \o <<"\n">>, Tail(items))

\* the text the click listener builds from the outfit list
ShareText(list) ==
    IF list = NoList THEN ShareHeader ELSE AppendItems(ShareHeader, list)

BlueJeans == <<"B", "l", "u", "e", " ", "j", "e", "a", "n", "s">>

WhiteTee == <<"W", "h", "i", "t", "e", " ", "t", "e", "e">>

\* the outfit lists a page is rendered with: no container, an empty list, two
\* items, and three items with whitespace around and instead of their text
Outfits ==
    {NoList,
     <<>>,
     <<BlueJeans, WhiteTee>>,
     <<<<" ", " ">> \o BlueJeans, <<"\n", "\t">> \o WhiteTee \o <<" ", "\n">>, <<" ">>>>}

----------------------------------------------------------------------------
(* The page *)

\* no click has been handled and no share promise is pending
ShareIdle ==
    /\ shareWired = FALSE
    /\ clicks = 0
    /\ shareCalls = 0
    /\ clipWrites = 0
    /\ textAlerts = 0
    /\ copiedAlerts = 0
    /\ logged = 0
    /\ sharePending = 0
    /\ clipPending = 0
    /\ lastText = Null

\* a page without the share button and without an outfit list
NoSharePage ==
    /\ hasShareBtn = FALSE
    /\ navShare = FALSE
    /\ navClipboard = FALSE
    /\ outfit = NoList

\* a page of the scheduler and the settings input
Init ==
    /\ now \in {m \in Moments : DayOf(m) = 0}
    /\ phase = "loading"
    /\ notifCap \in BOOLEAN
    /\ permReq = "idle"
    /\ permission = "none"
    /\ stored \in StoredAtLoad
    /\ defaultTime \in DefaultTimes
    /\ hasNt \in BOOLEAN
    /\ ntWired = FALSE
    /\ timeStr = Null
    /\ timers = {}
    /\ timerSeq = 0
    /\ notifCount = 0
    /\ fireDays = [d \in 0..MaxDay |-> 0]
    /\ overnight = 0
    /\ lastFire = {}
    /\ ntChangeSeq = 0
    /\ permNow = "default"
    /\ shown = 0
    /\ NoSharePage
    /\ ShareIdle

\* the host clock advances
Tick ==
    /\ \E m \in Moments : m > now /\ now' = m
    /\ UNCHANGED <<phase, notifCap, permReq, permission, stored, defaultTime, hasNt,
                   ntWired, timeStr, timers, timerSeq, notifCount, fireDays,
                   overnight, lastFire, ntChangeSeq, permNow, shown, shareVars>>

\* the DOMContentLoaded listener: setupNotifications() up to the pending
\* promise, setupShare(), then the change listener on #nt
DOMContentLoaded ==
    /\ phase = "loading"
    /\ phase' = "ready"
    /\ permReq' = IF notifCap THEN "pending" ELSE permReq
    /\ shareWired' = hasShareBtn
    /\ ntWired' = hasNt
    /\ UNCHANGED <<now, notifCap, permission, stored, defaultTime, hasNt, timeStr,
                   timers, timerSeq, notifCount, fireDays, overnight, lastFire,
                   ntChangeSeq, permNow, shown>>
    /\ UNCHANGED <<hasShareBtn, navShare, navClipboard, outfit, clicks, shareCalls,
                   clipWrites, textAlerts, copiedAlerts, logged, sharePending,
                   clipPending, lastText>>

\* a then-callback that starts the scheduler whatever the permission is
PermissionResolved_NoCheck(p) ==
    /\ permReq = "pending"
    /\ permReq' = "settled"
    /\ permission' = p
    /\ permNow' = p
    /\ timeStr' = ResolveTimeStr(stored, defaultTime)
    /\ timerSeq' = timerSeq + 1
    /\ timers' = timers \cup {schedule(timeStr', now, timerSeq')}
    /\ UNCHANGED <<now, phase, notifCap, stored, defaultTime, hasNt, ntWired,
                   notifCount, fireDays, overnight, lastFire, ntChangeSeq, shown,
                   shareVars>>

\* the then-callback of Notification.requestPermission()
PermissionResolved(p) ==
    /\ permReq = "pending"
    /\ permReq' = "settled"
    /\ permission' = p
    /\ permNow' = p
    /\ IF p # "granted"
       THEN UNCHANGED <<timeStr, timers, timerSeq>>
       ELSE /\ timeStr' = ResolveTimeStr(stored, defaultTime)
            /\ timerSeq' = timerSeq + 1
            /\ timers' = timers \cup {schedule(timeStr', now, timerSeq')}
    /\ UNCHANGED <<now, phase, notifCap, stored, defaultTime, hasNt, ntWired,
                   notifCount, fireDays, overnight, lastFire, ntChangeSeq, shown,
                   shareVars>>

\* setInterval in place of setTimeout: the fired timer stays pending
TimerFire_Interval(t) ==
    /\ t \in timers
    /\ now >= t.due
    /\ notifCount' = notifCount + 1
    /\ fireDays' = [fireDays EXCEPT ![DayOf(now)] = @ + 1]
    /\ overnight' = IF t.target # NaN /\ DayOf(now) > DayOf(Val(t.target))
                    THEN overnight + 1 ELSE overnight
    /\ lastFire' = {[at |-> now, due |-> t.due, target |-> t.target]}
    /\ timerSeq' = timerSeq + 1
    /\ timers' = timers \cup {schedule(timeStr, now, timerSeq')}
    /\ shown' = IF permNow = "granted" THEN shown + 1 ELSE shown
    /\ UNCHANGED <<now, phase, notifCap, permReq, permission, stored, defaultTime,
                   hasNt, ntWired, timeStr, ntChangeSeq, permNow, shareVars>>

\* the callback without its schedule() call: one notification, no re-arm
TimerFire_NoRearm(t) ==
    /\ t \in timers
    /\ now >= t.due
    /\ notifCount' = notifCount + 1
    /\ fireDays' = [fireDays EXCEPT ![DayOf(now)] = @ + 1]
    /\ overnight' = IF t.target # NaN /\ DayOf(now) > DayOf(Val(t.target))
                    THEN overnight + 1 ELSE overnight
    /\ lastFire' = {[at |-> now, due |-> t.due, target |-> t.target]}
    /\ timers' = timers \ {t}
    /\ shown' = IF permNow = "granted" THEN shown + 1 ELSE shown
    /\ UNCHANGED <<now, phase, notifCap, permReq, permission, stored, defaultTime,
                   hasNt, ntWired, timeStr, timerSeq, ntChangeSeq, permNow, shareVars>>

\* the callback skipping the notification when it runs after its due moment
TimerFire_DropLate(t) ==
    /\ t \in timers
    /\ now >= t.due
    /\ notifCount' = IF now > t.due THEN notifCount ELSE notifCount + 1
    /\ fireDays' = IF now > t.due THEN fireDays
                   ELSE [fireDays EXCEPT ![DayOf(now)] = @ + 1]
    /\ overnight' = IF t.target # NaN /\ DayOf(now) > DayOf(Val(t.target))
                    THEN overnight + 1 ELSE overnight
    /\ lastFire' = {[at |-> now, due |-> t.due, target |-> t.target]}
    /\ timerSeq' = timerSeq + 1
    /\ timers' = (timers \ {t}) \cup {schedule(timeStr, now, timerSeq')}
    /\ shown' = IF permNow = "granted" THEN shown + 1 ELSE shown
    /\ UNCHANGED <<now, phase, notifCap, permReq, permission, stored, defaultTime,
                   hasNt, ntWired, timeStr, ntChangeSeq, permNow, shareVars>>

\* the callback resolving the time string again from the persisted preference
TimerFire_Reread(t) ==
    /\ t \in timers
    /\ now >= t.due
    /\ notifCount' = notifCount + 1
    /\ fireDays' = [fireDays EXCEPT ![DayOf(now)] = @ + 1]
    /\ overnight' = IF t.target # NaN /\ DayOf(now) > DayOf(Val(t.target))
                    THEN overnight + 1 ELSE overnight
    /\ lastFire' = {[at |-> now, due |-> t.due, target |-> t.target]}
    /\ timerSeq' = timerSeq + 1
    /\ timeStr' = ResolveTimeStr(stored, defaultTime)
    /\ timers' = (timers \ {t}) \cup {schedule(timeStr', now, timerSeq')}
    /\ shown' = IF permNow = "granted" THEN shown + 1 ELSE shown
    /\ UNCHANGED <<now, phase, notifCap, permReq, permission, stored, defaultTime,
                   hasNt, ntWired, ntChangeSeq, permNow, shareVars>>

\* a callback that also writes the scheduler's time string back to storage
TimerFire_Persist(t) ==
    /\ t \in timers
    /\ now >= t.due
    /\ notifCount' = notifCount + 1
    /\ fireDays' = [fireDays EXCEPT ![DayOf(now)] = @ + 1]
    /\ overnight' = IF t.target # NaN /\ DayOf(now) > DayOf(Val(t.target))
                    THEN overnight + 1 ELSE overnight
    /\ lastFire' = {[at |-> now, due |-> t.due, target |-> t.target]}
    /\ timerSeq' = timerSeq + 1
    /\ timers' = (timers \ {t}) \cup {schedule(timeStr, now, timerSeq')}
    /\ stored' = timeStr
    /\ shown' = IF permNow = "granted" THEN shown + 1 ELSE shown
    /\ UNCHANGED <<now, phase, notifCap, permReq, permission, defaultTime,
                   hasNt, ntWired, timeStr, ntChangeSeq, permNow, shareVars>>

\* a callback that looks at the permission again and, without it, neither
\* presents the notification nor calls schedule()
TimerFire_CheckPerm(t) ==
    /\ t \in timers
    /\ now >= t.due
    /\ IF permNow = "granted"
       THEN /\ notifCount' = notifCount + 1
            /\ fireDays' = [fireDays EXCEPT ![DayOf(now)] = @ + 1]
            /\ lastFire' = {[at |-> now, due |-> t.due, target |-> t.target]}
            /\ timerSeq' = timerSeq + 1
            /\ timers' = (timers \ {t}) \cup {schedule(timeStr, now, timerSeq')}
            /\ shown' = shown + 1
       ELSE /\ timers' = timers \ {t}
            /\ UNCHANGED <<notifCount, fireDays, lastFire, timerSeq, shown>>
    /\ overnight' = IF t.target # NaN /\ DayOf(now) > DayOf(Val(t.target))
                    THEN overnight + 1 ELSE overnight
    /\ UNCHANGED <<now, phase, notifCap, permReq, permission, stored, defaultTime,
                   hasNt, ntWired, timeStr, ntChangeSeq, permNow, shareVars>>

\* the setTimeout callback of timer t: new Notification(...), then schedule()
TimerFire(t) ==
    /\ t \in timers
    /\ now >= t.due
    /\ notifCount' = notifCount + 1
    /\ fireDays' = [fireDays EXCEPT ![DayOf(now)] = @ + 1]
    /\ overnight' = IF t.target # NaN /\ DayOf(now) > DayOf(Val(t.target))
                    THEN overnight + 1 ELSE overnight
    /\ lastFire' = {[at |-> now, due |-> t.due, target |-> t.target]}
    /\ timerSeq' = timerSeq + 1
    /\ timers' = (timers \ {t}) \cup {schedule(timeStr, now, timerSeq')}
    /\ shown' = IF permNow = "granted" THEN shown + 1 ELSE shown
    /\ UNCHANGED <<now, phase, notifCap, permReq, permission, stored, defaultTime,
                   hasNt, ntWired, timeStr, ntChangeSeq, permNow, shareVars>>

\* the listener also updating the time string the running scheduler reads
NtChange_Live(v) ==
    /\ ntWired
    /\ stored' = v
    /\ ntChangeSeq' = timerSeq
    /\ timeStr' = IF timeStr # Null /\ Truthy(v) THEN v ELSE timeStr
    /\ UNCHANGED <<now, phase, notifCap, permReq, permission, defaultTime, hasNt,
                   ntWired, timers, timerSeq, notifCount, fireDays,
                   overnight, lastFire, permNow, shown, shareVars>>

\* the change listener of #nt: localStorage.setItem('notification_time', value)
NtChange(v) ==
    /\ ntWired
    /\ stored' = v
    /\ ntChangeSeq' = timerSeq
    /\ UNCHANGED <<now, phase, notifCap, permReq, permission, defaultTime, hasNt,
                   ntWired, timeStr, timers, timerSeq, notifCount, fireDays,
                   overnight, lastFire, permNow, shown, shareVars>>

\* everything but the share button's part of the state
schedVars == <<now, phase, notifCap, permReq, permission, stored, defaultTime,
               hasNt, ntWired, timeStr, timers, timerSeq, notifCount, fireDays,
               overnight, lastFire, ntChangeSeq, permNow, shown>>

\* the user withdraws the notification permission in the browser
RevokePermission ==
    /\ permNow = "granted"
    /\ permNow' = "denied"
    /\ UNCHANGED <<now, phase, notifCap, permReq, permission, stored, defaultTime,
                   hasNt, ntWired, timeStr, timers, timerSeq, notifCount, fireDays,
                   overnight, lastFire, ntChangeSeq, shown, shareVars>>

\* the click listener of #share-btn: the text, then one delivery
ShareClick ==
    /\ shareWired
    /\ clicks < MaxClicks
    /\ clicks' = clicks + 1
    /\ lastText' = ShareText(outfit)
    /\ IF navShare
       THEN /\ shareCalls' = shareCalls + 1
            /\ sharePending' = sharePending + 1
            /\ UNCHANGED <<clipWrites, clipPending, textAlerts>>
       ELSE IF navClipboard
       THEN /\ clipWrites' = clipWrites + 1
            /\ clipPending' = clipPending + 1
            /\ UNCHANGED <<shareCalls, sharePending, textAlerts>>
       ELSE /\ textAlerts' = textAlerts + 1
            /\ UNCHANGED <<shareCalls, sharePending, clipWrites, clipPending>>
    /\ UNCHANGED <<hasShareBtn, shareWired, navShare, navClipboard, outfit,
                   copiedAlerts, logged>>
    /\ UNCHANGED schedVars

\* a catch callback that falls back to the clipboard when the share fails
ShareSettled_Fallback(ok) ==
    /\ sharePending > 0
    /\ sharePending' = sharePending - 1
    /\ logged' = IF ok THEN logged ELSE logged + 1
    /\ IF ~ok /\ navClipboard
       THEN /\ clipWrites' = clipWrites + 1
            /\ clipPending' = clipPending + 1
       ELSE UNCHANGED <<clipWrites, clipPending>>
    /\ UNCHANGED <<hasShareBtn, shareWired, navShare, navClipboard, outfit, clicks,
                   shareCalls, textAlerts, copiedAlerts, lastText>>
    /\ UNCHANGED schedVars

\* the promise of navigator.share settles: fulfilled (ok), or rejected and
\* handed to the catch callback
ShareSettled(ok) ==
    /\ sharePending > 0
    /\ sharePending' = sharePending - 1
    /\ logged' = IF ok THEN logged ELSE logged + 1
    /\ UNCHANGED <<hasShareBtn, shareWired, navShare, navClipboard, outfit, clicks,
                   shareCalls, clipWrites, textAlerts, copiedAlerts, clipPending,
                   lastText>>
    /\ UNCHANGED schedVars

\* the promise of writeText settles: fulfilled (ok) and handed to the then
\* callback, or rejected, for which the listener registers nothing
ClipboardSettled(ok) ==
    /\ clipPending > 0
    /\ clipPending' = clipPending - 1
    /\ copiedAlerts' = IF ok THEN copiedAlerts + 1 ELSE copiedAlerts
    /\ UNCHANGED <<hasShareBtn, shareWired, navShare, navClipboard, outfit, clicks,
                   shareCalls, clipWrites, textAlerts, logged, sharePending,
                   lastText>>
    /\ UNCHANGED schedVars

Next ==
    \/ Tick
    \/ DOMContentLoaded
    \/ \E p \in Permissions : PermissionResolved(p)
    \/ \E t \in timers : TimerFire(t)
    \/ \E v \in NtValues : NtChange(v)

Spec == Init /\ [][Next]_vars

\* the host clock keeps advancing and the host delivers every timer that is due
LiveSpec ==
    /\ Spec
    /\ WF_vars(Tick)
    /\ WF_vars(\E t \in timers : TimerFire(t))

\* the first moment of the clock
FirstMoment == CHOOSE m \in Moments : \A n \in Moments : m <= n

\* a page of any kind: with or without the settings input, the share button,
\* the outfit list and the share capabilities of the browser
PageInit ==
    /\ now = FirstMoment
    /\ phase = "loading"
    /\ notifCap \in BOOLEAN
    /\ permReq = "idle"
    /\ permission = "none"
    /\ stored = Null
    /\ defaultTime = Undefined
    /\ hasNt \in BOOLEAN
    /\ ntWired = FALSE
    /\ timeStr = Null
    /\ timers = {}
    /\ timerSeq = 0
    /\ notifCount = 0
    /\ fireDays = [d \in 0..MaxDay |-> 0]
    /\ overnight = 0
    /\ lastFire = {}
    /\ ntChangeSeq = 0
    /\ permNow = "default"
    /\ shown = 0
    /\ \/ NoSharePage
       \/ /\ hasShareBtn = TRUE
          /\ navShare \in BOOLEAN
          /\ navClipboard \in BOOLEAN
          /\ outfit \in Outfits
    /\ ShareIdle

\* the clock advances within the days a page of any kind is followed for
PageTick ==
    /\ Tick
    /\ DayOf(now') <= PageDays

PageNext ==
    \/ PageTick
    \/ DOMContentLoaded
    \/ \E p \in Permissions : PermissionResolved(p)
    \/ \E t \in timers : TimerFire(t)
    \/ \E v \in NtValues : NtChange(v)
    \/ RevokePermission
    \/ ShareClick
    \/ \E ok \in BOOLEAN : ShareSettled(ok)
    \/ \E ok \in BOOLEAN : ClipboardSettled(ok)

PageSpec == PageInit /\ [][PageNext]_vars

----------------------------------------------------------------------------
(* Vocabulary of the properties *)

\* the (hour, minute) a time string HH:MM stands for
HourMinuteOf(ts) == CHOOSE hm \in HourMinutes : FormatHHMM(hm[1], hm[2]) = ts

ValidTimeStr(ts) == \E hm \in HourMinutes : FormatHHMM(hm[1], hm[2]) = ts

\* the instant "day of t at the time-of-day of ts, second 0, millisecond 0"
SameDayInstant(ts, t) == DayOf(t) * MsPerDay + MsOf(HourMinuteOf(ts))

Started == timeStr # Null

\* the last moment the clock reaches
LastMoment == CHOOSE m \in Moments : \A n \in Moments : n <= m

----------------------------------------------------------------------------
(* C1: at every moment at most one scheduler timer is pending: the scheduler is
   started at most once per page load (only by the granted permission promise),
   and every further timer is armed by the callback of a timer that has fired,
   so the number of setTimeout calls is the number of callbacks run plus the
   one pending timer. *)
C1_AtMostOneTimer ==
    /\ Cardinality(timers) <= 1
    /\ timers # {} => permReq = "settled" /\ permission = "granted"
    /\ timerSeq = notifCount + Cardinality(timers)

C1_Witness ==
    /\ Cardinality(timers) = 1
    /\ notifCount >= 2
    /\ ntChangeSeq >= 1

(* C2: for a valid HH:MM and a moment now on day D, schedule() computes
   target = day D at HH:MM:00.000 when that instant is still ahead of now and
   day D+1 at HH:MM:00.000 when it has already passed; the armed delay is
   target - now. *)
C2_TargetTodayOrTomorrow ==
    \A t \in timers :
        ValidTimeStr(timeStr) =>
            LET instant == SameDayInstant(timeStr, t.armedAt) IN
            /\ t.target # NaN
            /\ instant > t.armedAt => Val(t.target) = instant
            /\ instant < t.armedAt => Val(t.target) = instant + MsPerDay
            /\ t.timeout = Num(Val(t.target) - t.armedAt)
            /\ t.due - t.armedAt = Val(t.target) - t.armedAt

\* "08:00" read at 08:00:01 on day D gives day D+1
C2_Witness ==
    \E t \in timers :
        /\ timeStr = Literal0800
        /\ TimeOfDay(t.armedAt) = 8 * MsPerHour + MsPerSec
        /\ Val(t.target) = (DayOf(t.armedAt) + 1) * MsPerDay + 8 * MsPerHour

\* "08:00" read at 07:59:00 on day D gives day D and a delay of 60 000 ms
C2_WitnessAhead ==
    \E t \in timers :
        /\ timeStr = Literal0800
        /\ TimeOfDay(t.armedAt) = 8 * MsPerHour - MsPerMin
        /\ DayOf(Val(t.target)) = DayOf(t.armedAt)
        /\ t.timeout = Num(60 * MsPerSec)

(* C3, as stated: when now equals the target time-of-day to the millisecond,
   schedule() does not advance the target: the delay is 0. *)
C3_ExactNotAdvanced ==
    \A t \in timers :
        (ValidTimeStr(timeStr) /\ t.armedAt = SameDayInstant(timeStr, t.armedAt)) =>
            /\ t.target = Num(t.armedAt)
            /\ t.timeout = Num(0)

(* C3, amended: when now equals the target time-of-day to the millisecond,
   schedule() advances the target to the next day (the test is target <= now):
   the delay is exactly one day, and nothing fires immediately. *)
C3_ExactAdvanced ==
    \A t \in timers :
        (ValidTimeStr(timeStr) /\ t.armedAt = SameDayInstant(timeStr, t.armedAt)) =>
            /\ t.target = Num(t.armedAt + MsPerDay)
            /\ t.timeout = Num(MsPerDay)
            /\ t.due = t.armedAt + MsPerDay

C3_Witness ==
    \E t \in timers :
        /\ timeStr = Literal0800
        /\ TimeOfDay(t.armedAt) = 8 * MsPerHour
        /\ t.timeout = Num(MsPerDay)

(* C4: in every cycle the armed target is the next occurrence of the
   time-of-day strictly after the now of that cycle: the delay handed to the
   timer is greater than 0 and at most one day. *)
C4_NextOccurrenceStrictlyAfter ==
    \A t \in timers :
        ValidTimeStr(timeStr) =>
            /\ t.timeout # NaN
            /\ Val(t.timeout) > 0
            /\ Val(t.timeout) <= MsPerDay
            /\ t.due = t.armedAt + Val(t.timeout)
            /\ TimeOfDay(t.due) = MsOf(HourMinuteOf(timeStr))

\* a cycle read one millisecond after the time-of-day: almost a full day
C4_Witness ==
    \E t \in timers :
        /\ notifCount >= 1
        /\ Val(t.timeout) = MsPerDay - 1

(* C5, as stated: no two notification fire events fall on the same calendar
   day, also when the host delivers a callback late, after midnight. *)
C5_OnePerDay == \A d \in 0..MaxDay : fireDays[d] <= 1

(* C5, amended: no two notification fire events fall on the same calendar
   day, provided every callback so far ran on the calendar day of its target
   (however late within that day). *)
C5_OnePerDayUnlessOvernight ==
    overnight = 0 => \A d \in 0..MaxDay : fireDays[d] <= 1

\* a callback delivered late on its own day, then the next day's one
C5_Witness ==
    /\ overnight = 0
    /\ notifCount >= 2
    /\ \E f \in lastFire : f.at > f.due

(* C6: once the scheduler has been started, and the host delivers every armed
   timer, the cycle never stops: a started scheduler always has exactly one
   timer pending, and every armed timer whose due moment the clock reaches is
   delivered and replaced by the next one, so that in the end the pending
   timer is one due after the last moment of the clock. *)
C6_CycleNeverStops ==
    /\ [](Started => Cardinality(timers) = 1)
    /\ <>[](Started => \A t \in timers : t.due > LastMoment)

C6_Witness ==
    /\ Started
    /\ notifCount >= 3
    /\ \E t \in timers : t.id = notifCount + 1 /\ t.due > now

(* C7: a callback delivered later than its target by any amount still emits
   its notification (the notifications are as many as the callbacks run), and
   the re-armed target is computed from the actual firing moment: it is the
   next occurrence of the time-of-day after the new now. *)
C7_LateFiresAndRearmsFromNow ==
    /\ \A t \in timers : notifCount = t.id - 1
    /\ \A f \in lastFire : \A t \in timers :
           /\ f.at >= f.due
           /\ t.armedAt = f.at
           /\ ValidTimeStr(timeStr) =>
                  /\ Val(t.target) > f.at
                  /\ Val(t.target) - f.at <= MsPerDay
                  /\ TimeOfDay(Val(t.target)) = MsOf(HourMinuteOf(timeStr))

\* a callback more than one day late: the new target is not the old one plus 24 h
C7_Witness ==
    \E f \in lastFire : \E t \in timers :
        /\ f.at - Val(f.target) > MsPerDay
        /\ Val(t.target) # Val(f.target) + MsPerDay
        /\ notifCount = t.id - 1

(* C8: recurrence is drift-free: after a callback delivered at or after its
   target and less than one day late, the next target is the same time-of-day
   on the next calendar day (the old target plus one day), whatever the
   lateness was. *)
C8_DriftFree ==
    \A f \in lastFire : \A t \in timers :
        (f.target # NaN /\ f.at >= Val(f.target) /\ f.at - Val(f.target) < MsPerDay) =>
            t.target = Num(Val(f.target) + MsPerDay)

C8_Witness ==
    \E f \in lastFire : \E t \in timers :
        /\ f.at > Val(f.target)
        /\ f.at - Val(f.target) < MsPerDay
        /\ t.target = Num(Val(f.target) + MsPerDay)
        /\ notifCount >= 2

(* C9, as stated: a time-of-day written by the settings input while a timer is
   armed takes effect on the next scheduling cycle: the target armed after the
   pending timer fires is computed from the new time-of-day. *)
C9_NewValueNextCycle ==
    \A t \in timers :
        (ntChangeSeq >= 1 /\ t.id > ntChangeSeq /\ ValidTimeStr(stored)) =>
            TimeOfDay(Val(t.target)) = MsOf(HourMinuteOf(stored))

(* C9, amended: a write of the persisted time-of-day leaves the armed timer and
   the scheduler's time string as they are, and the new value takes effect in
   no later cycle of this page: the target armed when a timer fires has the
   time-of-day of the timer that fired. *)
C9_NewValueNotUsed ==
    [][/\ stored' # stored => UNCHANGED <<timers, timeStr>>
       /\ \A t \in timers : \A u \in timers' :
              TimeOfDay(Val(u.target)) = TimeOfDay(Val(t.target))]_vars

\* "00:00" written while a timer was pending; a later cycle still is not at 00:00
C9_Witness ==
    /\ ntChangeSeq >= 1
    /\ stored = FormatHHMM(0, 0)
    /\ \E t \in timers : t.id > ntChangeSeq /\ TimeOfDay(Val(t.target)) # 0

(* C10: the active time-of-day is resolved once, in the step that settles the
   permission promise as granted; from then on the scheduler's time string
   never changes and every armed target has its time-of-day, whatever is
   written to the persisted preference. *)
C10_ResolvedOnce ==
    /\ [][/\ Started => timeStr' = timeStr
          /\ timeStr' # timeStr =>
                 permReq = "pending" /\ permReq' = "settled" /\ permission' = "granted"]_vars
    /\ [](Started =>
             /\ permission = "granted"
             /\ \A t \in timers :
                    TimeOfDay(Val(t.target)) = MsOf(HourMinuteOf(timeStr)))

C10_Witness ==
    /\ Started
    /\ ValidTimeStr(stored)
    /\ stored # timeStr
    /\ notifCount >= 2

(* C11: the preference resolution gives the persisted value when one is
   persisted (a time-of-day, not the empty string), whatever the configured
   default is; with nothing persisted, the configured default when one is
   configured (a time-of-day); with neither, the literal "08:00"; and for
   every combination the result is one of these three. *)
C11_ResolutionPriority ==
    [][timeStr' # timeStr =>
          /\ stored \notin {Null, <<>>} => timeStr' = stored
          /\ stored = Null /\ defaultTime \notin {Undefined, <<>>} =>
                 timeStr' = defaultTime
          /\ stored = Null /\ defaultTime = Undefined => timeStr' = Literal0800
          /\ timeStr' \in {stored, defaultTime, Literal0800}]_vars

\* started from the persisted "23:59" although "07:30" is configured
C11_Witness ==
    /\ Started
    /\ timeStr = FormatHHMM(23, 59)
    /\ defaultTime = FormatHHMM(7, 30)
    /\ \E t \in timers : TimeOfDay(Val(t.target)) = MsOf(<<23, 59>>)

\* the Notification capability is absent, or the permission promise settled
\* as anything but 'granted'
NotificationsOff ==
    \/ phase = "ready" /\ ~notifCap
    \/ permReq = "settled" /\ permission # "granted"

(* C12: once the Notification capability is found absent or the permission
   promise has settled as anything but 'granted', no timer is armed and no
   notification is presented in any later state, the scheduler is never
   started, and the listeners of the share button and of the settings input
   are registered wherever the page has the element. *)
C12_SilentNoOp ==
    NotificationsOff =>
        /\ timers = {}
        /\ timerSeq = 0
        /\ notifCount = 0
        /\ ~Started
        /\ shareWired = hasShareBtn
        /\ ntWired = hasNt

\* permission denied; later in the day the share button and the settings input
\* have both been used
C12_Witness ==
    /\ permReq = "settled"
    /\ permission = "denied"
    /\ now > FirstMoment
    /\ clicks >= 1
    /\ stored = FormatHHMM(0, 0)

(* C13: every click selects exactly one delivery, by the presence of the
   capabilities alone: navigator.share when present, else the clipboard when
   present, else alert(text); a rejected share is logged and nothing else: it
   is followed by no clipboard write, no alert and no second share call. *)
C13_OneDeliveryPerClick ==
    /\ shareCalls + clipWrites + textAlerts = clicks
    /\ navShare =>
           /\ shareCalls = clicks
           /\ clipWrites = 0
           /\ textAlerts = 0
           /\ copiedAlerts = 0
    /\ ~navShare /\ navClipboard => clipWrites = clicks
    /\ ~navShare /\ ~navClipboard => textAlerts = clicks
    /\ logged + sharePending <= shareCalls
    /\ copiedAlerts + clipPending <= clipWrites

\* a share was rejected and logged in a browser that also has the clipboard
C13_Witness ==
    /\ navShare
    /\ navClipboard
    /\ logged >= 1
    /\ sharePending = 0

\* the li items of the page, none without the container
ItemsOf(list) == IF list = NoList THEN <<>> ELSE list

\* t is s without the whitespace at its two ends
IsTrimOf(t, s) ==
    /\ t = <<>> \/ (~IsSpace(t[1]) /\ ~IsSpace(t[Len(t)]))
    /\ \E i \in 0..Len(s) :
           /\ i + Len(t) <= Len(s)
           /\ SubSeq(s, i + 1, i + Len(t)) = t
           /\ \A k \in (1..i) \cup ((i + Len(t) + 1)..Len(s)) : IsSpace(s[k])

(* C14: the text a click builds is the header "My outfit from Christa's
   Closet:\n" followed by the trimmed text of each item, in document order,
   each followed by one newline; without the list container or with an empty
   list it is the header alone. *)
C14_ShareText ==
    lastText # Null =>
        LET items == ItemsOf(outfit)
            n == Len(ShareHeader)
            lines == Split(SubSeq(lastText, n + 1, Len(lastText)), "\n")
        IN  /\ SubSeq(lastText, 1, n) = ShareHeader
            /\ Len(lines) = Len(items) + 1
            /\ lines[Len(lines)] = <<>>
            /\ \A i \in 1..Len(items) : IsTrimOf(lines[i], items[i])
            /\ items = <<>> => lastText = ShareHeader
            /\ outfit = <<BlueJeans, WhiteTee>> =>
                   lastText = ShareHeader \o BlueJeans \o <<"\n">> \o WhiteTee \o <<"\n">>

\* a click on a page whose items carry whitespace around their text
C14_Witness ==
    /\ lastText # Null
    /\ outfit # NoList
    /\ Len(outfit) = 3
    /\ lastText = ShareHeader \o BlueJeans \o <<"\n">> \o WhiteTee \o <<"\n", "\n">>

(* C15: the permission is looked at only before the scheduler starts: a
   started scheduler was granted the permission, and from then on, whatever
   the permission is now, every callback constructs a notification and arms
   the next timer, so one timer is always pending. *)
C15_NoRecheckAfterStart ==
    Started =>
        /\ permission = "granted"
        /\ Cardinality(timers) = 1
        /\ notifCount = timerSeq - 1
        /\ shown <= notifCount
        /\ permNow = "granted" => shown = notifCount

\* a callback ran after the permission was withdrawn and armed the next timer
C15_Witness ==
    /\ Started
    /\ permNow = "denied"
    /\ notifCount > shown
    /\ \E t \in timers : \E f \in lastFire : t.armedAt = f.at

(* C16: arming a timer and firing a notification leave the persisted
   time-of-day as it is: it is written only by the change listener of the
   settings input, with the input's value, and that step leaves the timers,
   the timer counter, the scheduler's time string and the notifications as
   they are. *)
C16_PreferenceFrame ==
    [][/\ stored' # stored =>
              /\ ntWired
              /\ stored' \in NtValues
              /\ UNCHANGED <<timers, timerSeq, timeStr, notifCount, shown>>
       /\ (timers' # timers \/ notifCount' # notifCount) => stored' = stored]_vars

\* nothing is persisted after the scheduler was started, a timer fired and the
\* next was armed
C16_Witness ==
    /\ Started
    /\ notifCount >= 1
    /\ timers # {}
    /\ stored = Null
    /\ hasNt

(* C17: when the settings input writes a value after DOMContentLoaded and
   before the permission promise settles as granted, the scheduler is started
   from what is persisted at the moment the promise settles, not from what
   was persisted when the page was loaded: a written time-of-day is the time
   string passed to scheduleNotificationAt and the time-of-day of the first
   target. (The values the input writes are none of those persisted at load,
   so stored \in NtValues says that the input wrote since the load.) *)
C17_ChangeBeforeGrantIsUsed ==
    [][(timeStr' # timeStr /\ stored \in NtValues) =>
          /\ timeStr' \notin StoredAtLoad
          /\ stored # <<>> =>
                 /\ timeStr' = stored
                 /\ \A t \in timers' :
                        TimeOfDay(Val(t.target)) = MsOf(HourMinuteOf(stored))]_vars

\* "23:59" was persisted at load, "00:00" was written while the promise was
\* pending, and the scheduler runs at 00:00
C17_Witness ==
    /\ Started
    /\ timeStr = FormatHHMM(0, 0)
    /\ ntChangeSeq = 0
    /\ notifCount >= 1
    /\ \E f \in lastFire : TimeOfDay(Val(f.target)) = 0

(* C18: the empty string counts as absent in the resolution: with "" persisted
   the configured default is used, with the configured default "" the literal
   "08:00" is used, and the scheduler is never started with an empty time
   string. *)
C18_EmptyIsAbsent ==
    [][timeStr' # timeStr =>
          /\ timeStr' # <<>>
          /\ ValidTimeStr(timeStr')
          /\ stored = <<>> /\ defaultTime \notin {Undefined, <<>>} =>
                 timeStr' = defaultTime
          /\ stored \in {Null, <<>>} /\ defaultTime = <<>> =>
                 timeStr' = Literal0800]_vars

\* "" persisted before the start and "" configured: started at 08:00
C18_Witness ==
    /\ Started
    /\ stored = <<>>
    /\ ntChangeSeq = 0
    /\ defaultTime = <<>>
    /\ timeStr = Literal0800

====
